---- MODULE Spec2Model ----
(***************************************************************************)
(* The blogging backend of Admin_tg: the /users and /posts HTTP handlers   *)
(* (router/*.py), the middle layer (server/*.py) and the database layer    *)
(* (base/*.py) over the two tables of base/model.py.                       *)
(*                                                                         *)
(* Every request runs in its own database session (base/connect.py) and    *)
(* is a process that moves from one awaited database access to the next;   *)
(* requests interleave at those points.  A table changes only when a       *)
(* session commits.                                                        *)
(***************************************************************************)
EXTENDS Integers, Sequences, FiniteSets, TLC

\* ---------------------------------------------------------------- bounds
MaxUserId == 2
MaxPostId == 2
MaxUuid == 2
MaxRequests == 4
MaxRestarts == 1
MaxFaults == 1
NumProcs == 2
TicksPerMinute == 2

Procs == 1..NumProcs

\* ------------------------------------------------------- request domains
Names == {"ann", ""}
Logins == {"l1", "l2"}
Passwords == {"p1"}
WrongPasswords == {"p2"}
Titles == {"a", "b"}
Texts == {"x", "y"}
UserIds == 1..MaxUserId
PostIds == 1..MaxPostId

\* Text is a sequence of characters, so that formatting and splitting act
\* on what they act on in the code.
NoToken == <<"N", "o", "T", "o", "k", "e", "n">>
\* str(uuid4()): the k-th identifier the server generates
UuidStr(k) == <<ToString(k)>>
IsUuidStr(s) == \E k \in 1..9 : s = UuidStr(k)
\* the UUID column's bind conversion of a string
UuidOf(s) == CHOOSE k \in 1..9 : s = UuidStr(k)

TitleRank(t) == IF t = "a" THEN 1 ELSE 2

\* datetime.strftime(created_at, "%Y-%m-%d %H:%M") drops the seconds
strftime(t) == t \div TicksPerMinute

Placeholder == "Unknown author"

VARIABLES
    users,       \* table users: rows [id, name, token, login, password]
    posts,       \* table post: rows [id, title, author, text, created_at]
    userSeq,     \* last value of the users.id sequence
    postSeq,     \* last value of the post.id sequence
    uuidSeq,     \* number of uuid4() values generated so far
    clock,       \* wall clock
    importTime,  \* datetime.utcnow() as evaluated when base/model.py was imported
    restarts,    \* number of restarts of the server process so far
    faultsLeft,  \* number of operational errors the store may still raise
    nreq,        \* number of requests received so far
    pc,          \* per request in flight: the awaited call it is at
    req,         \* per request in flight: path, query and body
    loc,         \* per request in flight: the rows its session has loaded
    raised,      \* per request in flight: the database errors raised so far
    response,    \* the latest HTTP exchange: request, status, body, errors raised
    hist         \* history: per post id, what was submitted and when

vars == <<users, posts, userSeq, postSeq, uuidSeq, clock, importTime, restarts,
          faultsLeft, nreq, pc, req, loc, raised, response, hist>>

store == <<users, posts, userSeq, postSeq, uuidSeq>>
env == <<clock, importTime, restarts>>

NoReq == [op |-> "none"]
NoResponse == [req |-> NoReq, status |-> 0, body |-> <<>>, raised |-> {}]
EmptyDict == <<>>

Faults == IF faultsLeft > 0 THEN BOOLEAN ELSE {FALSE}

\* ------------------------------------------------------------ text helpers
TokenPrefix == <<"t", "o", "k", "e", "n", "=">>
EqualsSign == "="

startswith(s, prefix) ==
    /\ Len(s) >= Len(prefix)
    /\ SubSeq(s, 1, Len(prefix)) = prefix

\* str.split(sep): the pieces of s between the occurrences of sep
RECURSIVE split(_, _)
split(s, sep) ==
    IF \A i \in 1..Len(s) : s[i] # sep
    THEN <<s>>
    ELSE LET i == CHOOSE k \in 1..Len(s) :
                      /\ s[k] = sep
                      /\ \A j \in 1..(k - 1) : s[j] # sep
         IN  <<SubSeq(s, 1, i - 1)>> \o split(SubSeq(s, i + 1, Len(s)), sep)

\* ------------------------------------------------- constraints of the tables
UniqueConstraint_absent(name, login) == FALSE

\* UniqueConstraint('name', 'login') on users: would inserting (name, login)
\* violate it
UniqueConstraint(name, login) ==
    \E u \in users : u.name = name /\ u.login = login

ForeignKey_insert_unchecked(author) == FALSE

ForeignKey_insert_any_user(author) == users = {}

\* ForeignKey('users.id') on post.author, on insert of a post
ForeignKey_insert(author) ==
    ~ \E u \in users : u.id = author

ForeignKey_delete_unchecked(user_id) == FALSE

\* ForeignKey('users.id') on post.author, on delete of a user (no cascade
\* is declared, so the store refuses while a post refers to the user)
ForeignKey_delete(user_id) ==
    \E q \in posts : q.author = user_id


\* ------------------------------------------------------ per-request helpers
\* the store has raised the errors errs
Raised(errs) ==
    faultsLeft' = IF "OperationalError" \in errs THEN faultsLeft - 1 ELSE faultsLeft

\* request r of process p goes on to its next awaited call
Goto(p, r, label, rows, errs) ==
    /\ Raised(errs)
    /\ pc' = [pc EXCEPT ![p] = label]
    /\ req' = [req EXCEPT ![p] = r]
    /\ loc' = [loc EXCEPT ![p] = rows]
    /\ raised' = [raised EXCEPT ![p] = @ \cup errs]
    /\ UNCHANGED response

\* request r of process p is answered and its session closed
HTTP(p, r, status, body, errs) ==
    /\ Raised(errs)
    /\ pc' = [pc EXCEPT ![p] = "idle"]
    /\ req' = [req EXCEPT ![p] = NoReq]
    /\ loc' = [loc EXCEPT ![p] = {}]
    /\ raised' = [raised EXCEPT ![p] = {}]
    /\ response' = [req |-> r, status |-> status, body |-> body,
                    raised |-> raised[p] \cup errs]

\* a new request is received by process p
Receive(p) ==
    /\ pc[p] = "idle"
    /\ nreq < MaxRequests
    /\ nreq' = nreq + 1

InFlight(op) == Cardinality({p \in Procs : req[p].op = op})

OperationalError(fault) == IF fault THEN {"OperationalError"} ELSE {}

ClientTokens == {NoToken} \cup {UuidStr(k) : k \in 1..uuidSeq}
Optional(S) == {{}} \cup {{x} : x \in S}

\* ------------------------------------------------------------ DataBaseUser
\* select(User).where(User.id == user_id)
DataBaseUser_get_user(user_id) == {u \in users : u.id = user_id}

find_token_well_formed(token) ==
    IF IsUuidStr(token)
    THEN {[token |-> UuidOf(token)]}
    ELSE {}

\* select(User).where(User.token == token); a string that is no UUID fails
\* in the bind conversion, and the error is caught
find_token(token) ==
    IF IsUuidStr(token)
    THEN {u \in users : u.token = UuidOf(token)}
    ELSE {}

get_verification_by_login(login, password, fault) ==
    IF fault
    THEN {[status_code |-> 500, description |-> <<"e", "r", "r">>]}
    ELSE LET rows == {u.token : u \in {v \in users : v.login = login}}
         IN  IF rows = {}
             THEN {[status_code |-> 404, description |-> <<"n", "o">>]}
             ELSE {[status_code |-> 200,
                    description |-> TokenPrefix \o UuidStr(t)] : t \in rows}

\* select(User.token).where(login, password), .first(): the dicts it may return
get_verification(login, password, fault) ==
    IF fault
    THEN {[status_code |-> 500, description |-> <<"e", "r", "r">>]}
    ELSE LET rows == {u.token : u \in {v \in users : v.login = login
                                                   /\ v.password = password}}
         IN  IF rows = {}
             THEN {[status_code |-> 404, description |-> <<"n", "o">>]}
             ELSE {[status_code |-> 200,
                    description |-> TokenPrefix \o UuidStr(t)] : t \in rows}

\* ---------------------------------------------------------- MiddleLoyeUser
new_user_token_of_body(body_token, fresh) == body_token

\* the token new_user stores: user_data.token = str(uuid4())
new_user_token(body_token, fresh) == UuidStr(fresh)

check_token_any(token) == TRUE

check_token(token) == find_token(token) # {}

verification(result) ==
    IF result.status_code = 200 /\ startswith(result.description, TokenPrefix)
    THEN [token |-> split(result.description, EqualsSign)[2]]
    ELSE [status |-> "error", message |-> result.description]

\* ------------------------------------------------------------ /users routes
CreateUserRequests ==
    [op : {"create_user"}, name : Names, login : Logins,
     password : Passwords, token : ClientTokens]

\* POST /users: new_user, then DataBaseUser.create_user (one INSERT, one commit)
create_user(p) ==
    /\ Receive(p)
    /\ uuidSeq < MaxUuid
    /\ \E r \in CreateUserRequests : \E fault \in Faults :
        LET fresh == uuidSeq + 1
            token == new_user_token(r.token, fresh)
        IN  /\ uuidSeq' = fresh
            /\ IF fault
               THEN /\ HTTP(p, r, 500, <<>>, {"OperationalError"})
                    /\ UNCHANGED <<users, userSeq>>
               ELSE IF ~ IsUuidStr(token)
               THEN \* the UUID column refuses the value before any INSERT
                    /\ HTTP(p, r, 500, <<>>, {"StatementError"})
                    /\ UNCHANGED <<users, userSeq>>
               ELSE /\ userSeq < MaxUserId
                    /\ userSeq' = userSeq + 1
                    /\ IF UniqueConstraint(r.name, r.login)
                       THEN /\ HTTP(p, r, 409, <<>>, {"IntegrityError"})
                            /\ UNCHANGED users
                       ELSE /\ users' = users \cup
                                {[id |-> userSeq + 1, name |-> r.name,
                                  token |-> UuidOf(token), login |-> r.login,
                                  password |-> r.password]}
                            /\ HTTP(p, r, 201, <<>>, {})
    /\ UNCHANGED <<posts, postSeq, env, hist>>

LoginRequests ==
    [op : {"login"}, login : Logins, password : Passwords \cup WrongPasswords]

\* POST /users/login that issues a new token to the user it logs in
authenticate_user_reissues_token(p) ==
    /\ Receive(p)
    /\ \E r \in LoginRequests : \E fault \in Faults :
       \E found \in get_verification(r.login, r.password, fault) :
        LET result == verification(found)
        IN  IF "token" \in DOMAIN result
            THEN /\ HTTP(p, r, 200, result, OperationalError(fault))
                 /\ users' = {IF u.login = r.login
                              THEN [u EXCEPT !.token = (u.token % MaxUuid) + 1]
                              ELSE u : u \in users}
            ELSE /\ HTTP(p, r, 401, <<>>, OperationalError(fault))
                 /\ UNCHANGED users
    /\ UNCHANGED <<posts, userSeq, postSeq, uuidSeq, env, hist>>

\* POST /users/login
authenticate_user(p) ==
    /\ Receive(p)
    /\ \E r \in LoginRequests : \E fault \in Faults :
       \E found \in get_verification(r.login, r.password, fault) :
        LET result == verification(found)
        IN  IF "token" \in DOMAIN result
            THEN HTTP(p, r, 200, result, OperationalError(fault))
            ELSE HTTP(p, r, 401, <<>>, OperationalError(fault))
    /\ UNCHANGED <<store, env, hist>>

\* ------------------------------------------------------------ DataBasePost
Range(s) == {s[i] : i \in 1..Len(s)}
Min(a, b) == IF a < b THEN a ELSE b

\* the orders in which the store may return a set of rows
Perms(S) ==
    {s \in [1..Cardinality(S) -> S] :
        \A i, j \in 1..Cardinality(S) : i # j => s[i] # s[j]}

\* Column(DateTime, default=datetime.utcnow()): the default is the value the
\* call had when the class body ran
Post_created_at_default == importTime

\* select(User).where(User.id == user_id), user.name if user else None
DataBasePost_get_user(user_id) == {u.name : u \in {v \in users : v.id = user_id}}

\* select(Post).where(Post.id == post_id)
DataBasePost_get_post(post_id) == {q \in posts : q.id = post_id}

\* statement.where(Post.author == ...)
where_author(rows, filter_params) ==
    IF "author" \in DOMAIN filter_params
    THEN {q \in rows : q.author = filter_params.author}
    ELSE rows

order_by_asc(s, filter_params) ==
    IF "desc" \in DOMAIN filter_params /\ filter_params.desc = "created_at"
    THEN \A i, j \in 1..Len(s) : i < j => s[i].created_at <= s[j].created_at
    ELSE IF "desc" \in DOMAIN filter_params /\ filter_params.desc = "title"
    THEN \A i, j \in 1..Len(s) : i < j => TitleRank(s[i].title) <= TitleRank(s[j].title)
    ELSE TRUE

\* statement.order_by(Post.created_at.desc()) / order_by(Post.title.desc()):
\* is the sequence s in an order the statement allows
order_by_desc(s, filter_params) ==
    IF "desc" \in DOMAIN filter_params /\ filter_params.desc = "created_at"
    THEN \A i, j \in 1..Len(s) : i < j => s[i].created_at >= s[j].created_at
    ELSE IF "desc" \in DOMAIN filter_params /\ filter_params.desc = "title"
    THEN \A i, j \in 1..Len(s) : i < j => TitleRank(s[i].title) >= TitleRank(s[j].title)
    ELSE TRUE

\* statement.limit(...)
limit(s, filter_params) ==
    IF "limit" \in DOMAIN filter_params
    THEN SubSeq(s, 1, Min(filter_params.limit, Len(s)))
    ELSE s

DataBasePost_get_posts_limit_first(filter_params) ==
    {LET cut == limit(s, filter_params)
     IN  IF "author" \in DOMAIN filter_params
         THEN SelectSeq(cut, LAMBDA q : q.author = filter_params.author)
         ELSE cut :
        s \in {t \in Perms(posts) : order_by_desc(t, filter_params)}}

\* the SELECT that get_posts builds: WHERE, then ORDER BY, then LIMIT, whatever
\* the order of the generative calls; the result lists the store may return
DataBasePost_get_posts(filter_params) ==
    {limit(s, filter_params) :
        s \in {t \in Perms(where_author(posts, filter_params)) :
                  order_by_desc(t, filter_params)}}

\* ---------------------------------------------------------- MiddleLoyePost
valid_sort_fields == {"created_at", "title"}

MiddleLoyePost_get_post_swapped(post, user_name) ==
    [title |-> post.text,
     text |-> post.title,
     author |-> IF user_name = {} \/ user_name = {""}
                THEN Placeholder
                ELSE CHOOSE n \in user_name : TRUE,
     created_at |-> strftime(post.created_at)]

\* the dict get_post returns for a loaded post and the author's name
MiddleLoyePost_get_post(post, user_name) ==
    [title |-> post.title,
     text |-> post.text,
     author |-> IF user_name = {} \/ user_name = {""}
                THEN Placeholder
                ELSE CHOOSE n \in user_name : TRUE,
     created_at |-> strftime(post.created_at)]

\* the list get_posts returns for the rows of the database layer
MiddleLoyePost_get_posts(rows) ==
    [i \in 1..Len(rows) |->
        [title |-> rows[i].title, id |-> rows[i].id,
         created_at |-> strftime(rows[i].created_at)]]

\* ------------------------------------------------- DELETE /users/{user_id}
DeleteUserRequests == [op : {"delete_user"}, user_id : UserIds]

\* the route's local posts_result, by its status_code
posts_result(status_code) == [posts_result |-> status_code]

delete_posts_user_select_strict(p) ==
    /\ Receive(p)
    /\ \E r \in DeleteUserRequests :
        \E found \in DataBasePost_get_posts([author |-> r.user_id]) :
            IF found = <<>>
            THEN HTTP(p, r @@ posts_result(404), 404, <<>>, {})
            ELSE Goto(p, r, "du_posts_commit", Range(found), {})
    /\ UNCHANGED <<store, env, hist>>

\* delete_posts_user: get_posts(db, {"author": user_id})
delete_posts_user_select(p) ==
    /\ Receive(p)
    /\ \E r \in DeleteUserRequests : \E fault \in Faults :
        IF fault
        THEN \* get_posts returns None: 404, which the router tolerates
             Goto(p, r @@ posts_result(404), "du_user", {}, {"OperationalError"})
        ELSE \E found \in DataBasePost_get_posts([author |-> r.user_id]) :
                IF found = <<>>
                THEN Goto(p, r @@ posts_result(404), "du_user", {}, {})
                ELSE Goto(p, r, "du_posts_commit", Range(found), {})
    /\ UNCHANGED <<store, env, hist>>

\* delete_posts_user: db.delete(post) for each loaded post, commit
delete_posts_user_commit(p) ==
    /\ pc[p] = "du_posts_commit"
    /\ \E fault \in Faults :
        IF fault
        THEN /\ HTTP(p, req[p], 500, <<>>, {"OperationalError"})
             /\ UNCHANGED posts
        ELSE /\ posts' = {q \in posts : q.id \notin {l.id : l \in loc[p]}}
             /\ Goto(p, req[p] @@ posts_result(200), "du_user", {}, {})
    /\ UNCHANGED <<users, userSeq, postSeq, uuidSeq, env, nreq, hist>>

\* DataBaseUser.delete_user: get_user
delete_user_select(p) ==
    /\ pc[p] = "du_user"
    /\ \E fault \in Faults :
        LET user == IF fault THEN {} ELSE DataBaseUser_get_user(req[p].user_id)
        IN  IF user = {}
            THEN HTTP(p, req[p], 404, <<>>, OperationalError(fault))
            ELSE Goto(p, req[p], "du_user_commit", user, {})
    /\ UNCHANGED <<store, env, nreq, hist>>

\* DataBaseUser.delete_user: db.delete(user), commit
delete_user_commit(p) ==
    /\ pc[p] = "du_user_commit"
    /\ \E fault \in Faults :
        IF fault
        THEN /\ HTTP(p, req[p], 500, <<>>, {"OperationalError"})
             /\ UNCHANGED users
        ELSE IF ForeignKey_delete(req[p].user_id)
        THEN /\ HTTP(p, req[p], 500, <<>>, {"IntegrityError"})
             /\ UNCHANGED users
        ELSE \* a DELETE that matches no row is only warned about
             /\ users' = {u \in users : u.id # req[p].user_id}
             /\ HTTP(p, req[p], 200, <<>>, {})
    /\ UNCHANGED <<posts, userSeq, postSeq, uuidSeq, env, nreq, hist>>

\* ------------------------------------------------------------ /posts routes
\* The fields of a request are drawn where the handler first reads them:
\* the token by verify_token, the path and the body after it.
MutationRequests ==
    [op : (IF postSeq + InFlight("create_post") < MaxPostId
           THEN {"create_post"} ELSE {}) \cup {"update_post", "delete_post"},
     token : ClientTokens]

PathAndIds(r) ==
    CASE r.op = "create_post" -> {EmptyDict}
      [] r.op = "delete_post" -> [post_id : PostIds]
      [] r.op = "update_post" -> [post_id : PostIds, id : PostIds]

SchemaPost == [title : Titles, text : Texts, author : UserIds]
SchemaPostUpdate == [title : Titles, text : Texts]

AfterVerify_owner_only(p, head, errs) ==
    \E ids \in PathAndIds(head) :
        LET r == head @@ ids
            owner == {u.id : u \in find_token(r.token)}
        IN  CASE r.op = "create_post" -> Goto(p, r, "cp_commit", {}, errs)
              [] r.op = "delete_post" ->
                    IF \E q \in posts : q.id = r.post_id /\ q.author \notin owner
                    THEN HTTP(p, r, 403, <<>>, errs)
                    ELSE Goto(p, r, "dp_select", {}, errs)
              [] r.op = "update_post" ->
                    IF r.id # r.post_id
                    THEN HTTP(p, r, 400, <<>>, errs)
                    ELSE IF \E q \in posts : q.id = r.post_id /\ q.author \notin owner
                    THEN HTTP(p, r, 403, <<>>, errs)
                    ELSE Goto(p, r, "up_select", {}, errs)

\* where a post mutation goes once its token is accepted
AfterVerify(p, head, errs) ==
    \E ids \in PathAndIds(head) :
        LET r == head @@ ids
        IN  CASE r.op = "create_post" -> Goto(p, r, "cp_commit", {}, errs)
              [] r.op = "delete_post" -> Goto(p, r, "dp_select", {}, errs)
              [] r.op = "update_post" ->
                    IF r.id # r.post_id
                    THEN HTTP(p, r, 400, <<>>, errs)
                    ELSE Goto(p, r, "up_select", {}, errs)

\* Depends(verify_token): check_token, 403 unless the token is found
verify_token(p) ==
    /\ Receive(p)
    /\ \E r \in MutationRequests : \E fault \in Faults :
        LET is_valid == ~ fault /\ check_token(r.token)
            errs == OperationalError(fault)
                    \cup (IF ~ fault /\ ~ IsUuidStr(r.token)
                          THEN {"StatementError"} ELSE {})
        IN  IF ~ is_valid
            THEN HTTP(p, r, 403, <<>>, errs)
            ELSE AfterVerify(p, r, errs)
    /\ UNCHANGED <<store, env, hist>>

\* POST /posts: DataBasePost.create_post (one INSERT, one commit)
create_post(p) ==
    /\ pc[p] = "cp_commit"
    /\ \E new_post \in SchemaPost : \E fault \in Faults :
        LET r == req[p] @@ new_post
        IN  IF fault
            THEN /\ HTTP(p, r, 500, <<>>, {"OperationalError"})
                 /\ UNCHANGED <<posts, postSeq, clock, hist>>
            ELSE /\ postSeq < MaxPostId
                 /\ postSeq' = postSeq + 1
                 /\ clock' = clock + 1
                 /\ IF ForeignKey_insert(r.author)
                    THEN /\ HTTP(p, r, 404, <<>>, {"IntegrityError"})
                         /\ UNCHANGED <<posts, hist>>
                    ELSE /\ posts' = posts \cup
                             {[id |-> postSeq + 1, title |-> r.title,
                               author |-> r.author, text |-> r.text,
                               created_at |-> Post_created_at_default]}
                         /\ hist' = [hist EXCEPT ![postSeq + 1] =
                                [at |-> clock, run |-> restarts, title |-> r.title,
                                 text |-> r.text, author |-> r.author,
                                 updated |-> FALSE]]
                         /\ HTTP(p, r, 201, <<>>, {})
    /\ UNCHANGED <<users, userSeq, uuidSeq, importTime, restarts, nreq>>

\* PATCH /posts/{post_id}: DataBasePost.update_post, get_post
update_post_select(p) ==
    /\ pc[p] = "up_select"
    /\ \E fault \in Faults :
        LET post == IF fault THEN {} ELSE DataBasePost_get_post(req[p].id)
        IN  IF post = {}
            THEN HTTP(p, req[p], 404, <<>>, OperationalError(fault))
            ELSE Goto(p, req[p], "up_commit", post, {})
    /\ UNCHANGED <<store, env, nreq, hist>>

\* the columns the session finds changed on the loaded post
changed_columns(loaded, update) ==
    (IF update.title # loaded.title THEN {"title"} ELSE {})
    \cup (IF update.text # loaded.text THEN {"text"} ELSE {})

\* DataBasePost.update_post: post.title = ..., post.text = ..., commit.  The
\* session writes the columns that differ from the loaded row, by primary key;
\* an UPDATE that matches no row raises StaleDataError.
update_post_commit(p) ==
    /\ pc[p] = "up_commit"
    /\ \E update \in SchemaPostUpdate : \E fault \in Faults : \E loaded \in loc[p] :
        LET r == req[p] @@ update
            cols == changed_columns(loaded, r)
        IN  IF fault
            THEN /\ HTTP(p, r, 500, <<>>, {"OperationalError"})
                 /\ UNCHANGED <<posts, hist>>
            ELSE IF cols = {}
            THEN /\ HTTP(p, r, 200, <<>>, {})
                 /\ UNCHANGED <<posts, hist>>
            ELSE IF DataBasePost_get_post(loaded.id) = {}
            THEN /\ HTTP(p, r, 500, <<>>, {"StaleDataError"})
                 /\ UNCHANGED <<posts, hist>>
            ELSE /\ posts' = {IF q.id # loaded.id THEN q
                              ELSE [q EXCEPT
                                      !.title = IF "title" \in cols THEN r.title ELSE @,
                                      !.text = IF "text" \in cols THEN r.text ELSE @]
                              : q \in posts}
                 /\ hist' = [hist EXCEPT ![loaded.id].updated = TRUE]
                 /\ HTTP(p, r, 200, <<>>, {})
    /\ UNCHANGED <<users, userSeq, postSeq, uuidSeq, env, nreq>>

delete_post_select_unchecked(p) ==
    /\ pc[p] = "dp_select"
    /\ \E fault \in Faults :
        LET post == IF fault THEN {} ELSE DataBasePost_get_post(req[p].post_id)
        IN  Goto(p, req[p], "dp_commit", post, OperationalError(fault))
    /\ UNCHANGED <<store, env, nreq, hist>>

\* DELETE /posts/{post_id}: DataBasePost.delete_post, get_post
delete_post_select(p) ==
    /\ pc[p] = "dp_select"
    /\ \E fault \in Faults :
        LET post == IF fault THEN {} ELSE DataBasePost_get_post(req[p].post_id)
        IN  IF post = {}
            THEN HTTP(p, req[p], 404, <<>>, OperationalError(fault))
            ELSE Goto(p, req[p], "dp_commit", post, {})
    /\ UNCHANGED <<store, env, nreq, hist>>

delete_post_commit_not_committed(p) ==
    /\ pc[p] = "dp_commit"
    /\ \E fault \in Faults :
        IF fault
        THEN /\ HTTP(p, req[p], 500, <<>>, {"OperationalError"})
             /\ UNCHANGED posts
        ELSE /\ UNCHANGED posts
             /\ HTTP(p, req[p], 200, <<>>, {})
    /\ UNCHANGED <<users, userSeq, postSeq, uuidSeq, env, nreq, hist>>

\* DataBasePost.delete_post: db.delete(post), commit
delete_post_commit(p) ==
    /\ pc[p] = "dp_commit"
    /\ \E fault \in Faults :
        IF fault
        THEN /\ HTTP(p, req[p], 500, <<>>, {"OperationalError"})
             /\ UNCHANGED posts
        ELSE /\ posts' = {q \in posts : q.id \notin {l.id : l \in loc[p]}}
             /\ HTTP(p, req[p], 200, <<>>, {})
    /\ UNCHANGED <<users, userSeq, postSeq, uuidSeq, env, nreq, hist>>

GetPostRequests == [op : {"get_post"}, post_id : PostIds]

\* GET /posts/{post_id}: MiddleLoyePost.get_post, database.get_post
get_post_select(p) ==
    /\ Receive(p)
    /\ \E r \in GetPostRequests : \E fault \in Faults :
        LET post == IF fault THEN {} ELSE DataBasePost_get_post(r.post_id)
        IN  IF post = {}
            THEN HTTP(p, r, 404, <<>>, OperationalError(fault))
            ELSE Goto(p, r, "gp_user", post, {})
    /\ UNCHANGED <<store, env, hist>>

\* MiddleLoyePost.get_post: database.get_user(post.author), the dict
get_post_author(p) ==
    /\ pc[p] = "gp_user"
    /\ \E fault \in Faults : \E post \in loc[p] :
        LET user_name == IF fault THEN {} ELSE DataBasePost_get_user(post.author)
        IN  HTTP(p, req[p], 200, MiddleLoyePost_get_post(post, user_name),
                 OperationalError(fault))
    /\ UNCHANGED <<store, env, nreq, hist>>

\* the part of the query string that the sort-field validation reads
GetPostsSort == [op : {"get_posts"}, desc : Optional({"created_at", "title", "", "id"})]
GetPostsFilters == [limit : Optional({1}), author : Optional(UserIds)]
sort_by(r) == IF r.desc = {} THEN "created_at" ELSE CHOOSE d \in r.desc : TRUE

\* the dict the route builds from the query string
filter_params(r) ==
    (IF sort_by(r) # "" THEN [desc |-> sort_by(r)] ELSE EmptyDict)
        @@ (IF r.limit # {} THEN [limit |-> CHOOSE n \in r.limit : TRUE] ELSE EmptyDict)
        @@ (IF r.author # {} THEN [author |-> CHOOSE a \in r.author : TRUE] ELSE EmptyDict)

\* GET /posts: the route, MiddleLoyePost.get_posts, DataBasePost.get_posts
get_posts(p) ==
    /\ Receive(p)
    /\ \E head \in GetPostsSort :
        IF sort_by(head) # "" /\ sort_by(head) \notin valid_sort_fields
        THEN HTTP(p, head, 400, <<>>, {})
        ELSE \E rest \in GetPostsFilters : \E fault \in Faults :
              LET r == head @@ rest
                  fp == filter_params(r)
              IN  IF fault
                  THEN \* the database layer returns None, the middle layer []
                       HTTP(p, r, 200, <<>>, {"OperationalError"})
                  ELSE \E found \in DataBasePost_get_posts(fp) :
                          HTTP(p, r, 200, MiddleLoyePost_get_posts(found), {})
    /\ UNCHANGED <<store, env, hist>>

\* ------------------------------------------------------------- environment
\* the server process is restarted once no request is in flight: base/model.py
\* is imported again
Restart ==
    /\ \A p \in Procs : pc[p] = "idle"
    /\ restarts < MaxRestarts
    /\ restarts' = restarts + 1
    /\ importTime' = clock
    /\ UNCHANGED <<store, clock, faultsLeft, nreq, pc, req, loc, raised, response, hist>>

\* ----------------------------------------------------------- specification
NoHist == [at |-> 0, run |-> 0, title |-> "", text |-> "", author |-> 0,
           updated |-> FALSE]

InitStore ==
    /\ users = {}
    /\ posts = {}
    /\ userSeq = 0
    /\ postSeq = 0
    /\ uuidSeq = 0
    /\ clock = 1
    /\ importTime = 0
    /\ restarts = 0
    /\ nreq = 0
    /\ pc = [p \in Procs |-> "idle"]
    /\ req = [p \in Procs |-> NoReq]
    /\ loc = [p \in Procs |-> {}]
    /\ raised = [p \in Procs |-> {}]
    /\ response = NoResponse
    /\ hist = [i \in PostIds |-> NoHist]

Init == InitStore /\ faultsLeft = 0

FaultInit == InitStore /\ faultsLeft = MaxFaults

Next ==
    \/ \E p \in Procs : get_posts(p)
    \/ \E p \in Procs : get_post_select(p)
    \/ \E p \in Procs : get_post_author(p)
    \/ \E p \in Procs : verify_token(p)
    \/ \E p \in Procs : create_post(p)
    \/ \E p \in Procs : update_post_select(p)
    \/ \E p \in Procs : update_post_commit(p)
    \/ \E p \in Procs : delete_post_select(p)
    \/ \E p \in Procs : delete_post_commit(p)
    \/ \E p \in Procs : create_user(p)
    \/ \E p \in Procs : authenticate_user(p)
    \/ \E p \in Procs : delete_posts_user_select(p)
    \/ \E p \in Procs : delete_posts_user_commit(p)
    \/ \E p \in Procs : delete_user_select(p)
    \/ \E p \in Procs : delete_user_commit(p)
    \/ Restart

\* the program with a store that answers every statement
Spec == Init /\ [][Next]_vars

\* the program with a store that may also raise an operational error on a
\* statement or commit
FaultSpec == FaultInit /\ [][Next]_vars

\* A populated store, as left by MaxUserId create-user requests followed by
\* MaxPostId create-post requests with restarts of the server between them:
\* post i was created at time i by run runOf[i] of the server, whose import of
\* base/model.py was at the time of the first post of that run or a later one.
\* The requests that built the store are not counted in nreq.
RunsOf ==
    {f \in [PostIds -> 0..MaxRestarts] :
        \A i, j \in PostIds : i <= j => f[i] <= f[j]}

ImportTimeOf(runOf, run) ==
    IF run = 0 THEN 0
    ELSE CHOOSE i \in PostIds :
            /\ runOf[i] >= run
            /\ \A j \in PostIds : runOf[j] >= run => i <= j

ListInit ==
    /\ users = {[id |-> i, name |-> "ann",
                 token |-> i, login |-> IF i = 1 THEN "l1" ELSE "l2",
                 password |-> "p1"] : i \in 1..Min(MaxUserId, 2)}
    /\ userSeq = Min(MaxUserId, 2)
    /\ uuidSeq = Min(MaxUserId, 2)
    /\ \E runOf \in RunsOf :
       \E author \in [PostIds -> 1..Min(MaxUserId, 2)] :
       \E title \in [PostIds -> Titles] :
          /\ posts = {[id |-> i, title |-> title[i], author |-> author[i],
                       text |-> "x",
                       created_at |-> ImportTimeOf(runOf, runOf[i])]
                      : i \in PostIds}
          /\ hist = [i \in PostIds |->
                        [at |-> i, run |-> runOf[i], title |-> title[i],
                         text |-> "x", author |-> author[i], updated |-> FALSE]]
          /\ restarts = runOf[MaxPostId]
          /\ importTime = ImportTimeOf(runOf, runOf[MaxPostId])
    /\ postSeq = MaxPostId
    /\ clock = MaxPostId + 1
    /\ faultsLeft = 0
    /\ nreq = 0
    /\ pc = [p \in Procs |-> "idle"]
    /\ req = [p \in Procs |-> NoReq]
    /\ loc = [p \in Procs |-> {}]
    /\ raised = [p \in Procs |-> {}]
    /\ response = NoResponse

ListNext == \E p \in Procs : get_posts(p)

\* listings of a populated store
ListSpec == ListInit /\ [][ListNext]_vars

\* ------------------------------------------------------------------ claims
MutationOps == {"create_post", "update_post", "delete_post"}

\* the step receives a request and answers it at once: response' is its record
Answered == nreq' = nreq + 1 /\ req' = req

\* token is the text of the stored token of a user that exists
TokenStored(token) == \E u \in users : UuidStr(u.token) = token

PostById(id) == CHOOSE q \in posts : q.id = id

JsonNumber(n) == [type |-> "number", value |-> ToString(n)]
JsonString(str) == [type |-> "string", value |-> str]

\* C1: once DELETE /users/{id} has answered success, no user has that id and
\* no post has that id as its author.
C1_DeleteUserCascades ==
    (response.req.op = "delete_user" /\ response.status = 200) =>
        /\ \A u \in users : u.id # response.req.user_id
        /\ \A q \in posts : q.author # response.req.user_id

\* C1 witness: a user that had written a post has been deleted with success
C1_Witness ==
    /\ response.req.op = "delete_user"
    /\ response.status = 200
    /\ \E i \in PostIds : hist[i].at > 0 /\ hist[i].author = response.req.user_id

\* C2: a post mutation whose token is not the stored token of an existing user
\* goes no further than the token check: it is answered 403 in that step, and
\* the step leaves the table of posts as it was.
C2_Step ==
    nreq' = nreq + 1 =>
        /\ \A p \in Procs :
              (pc[p] = "idle" /\ pc'[p] # "idle" /\ req'[p].op \in MutationOps)
                  => TokenStored(req'[p].token)
        /\ (/\ req' = req
            /\ response'.req.op \in MutationOps
            /\ ~ TokenStored(response'.req.token))
              => (response'.status = 403 /\ posts' = posts)

C2_InvalidTokenRejected == [][C2_Step]_vars

\* C2 witness: the token of a deleted user has been refused while posts exist
C2_Witness ==
    /\ response.req.op \in MutationOps
    /\ response.status = 403
    /\ IsUuidStr(response.req.token)
    /\ ~ TokenStored(response.req.token)

\* C3 as amended: a successful fetch of a post that still exists and was not
\* updated since its creation returns the submitted title and text, and as
\* author the name of the user whose identifier was submitted (the placeholder
\* if that name is empty or its lookup failed).
C3_FetchReturnsSubmitted ==
    (/\ response.req.op = "get_post"
     /\ response.status = 200
     /\ \E q \in posts : q.id = response.req.post_id
     /\ ~ hist[response.req.post_id].updated) =>
        LET h == hist[response.req.post_id]
            names == {u.name : u \in {v \in users : v.id = h.author}}
        IN  /\ response.body.title = h.title
            /\ response.body.text = h.text
            /\ Cardinality(names) = 1
            /\ response.body.author =
                  IF "OperationalError" \in response.raised \/ names = {""}
                  THEN Placeholder
                  ELSE CHOOSE n \in names : TRUE

\* C3 witness: a created post has been fetched and the author's name returned
C3_Witness ==
    /\ response.req.op = "get_post"
    /\ response.status = 200
    /\ \E q \in posts : q.id = response.req.post_id
    /\ ~ hist[response.req.post_id].updated
    /\ response.body.author # Placeholder

\* C3 as stated: the fetch returns the title, text and author that were submitted
C3_AsStated ==
    (/\ response.req.op = "get_post"
     /\ response.status = 200
     /\ \E q \in posts : q.id = response.req.post_id
     /\ ~ hist[response.req.post_id].updated) =>
        LET h == hist[response.req.post_id]
        IN  /\ response.body.title = h.title
            /\ response.body.text = h.text
            /\ JsonString(response.body.author) = JsonNumber(h.author)

\* C4: the author of every stored post is the id of an existing user.
C4_ReferentialIntegrity ==
    \A q \in posts : \E u \in users : u.id = q.author

\* C4 witness: the deletion of a user was refused because a post refers to it
C4_Witness ==
    /\ response.req.op = "delete_user"
    /\ response.status = 500
    /\ "IntegrityError" \in response.raised
    /\ \E q \in posts : q.author = response.req.user_id

\* C5: no two users share (name, login); a create-user request whose name and
\* login are those of an existing user is answered 409 and leaves the users
\* as they were.
C5_Unique ==
    \A u, v \in users : (u.name = v.name /\ u.login = v.login) => u = v

C5_Step ==
    (/\ Answered
     /\ response'.req.op = "create_user"
     /\ \E u \in users : /\ u.name = response'.req.name
                         /\ u.login = response'.req.login)
        => (response'.status = 409 /\ users' = users)

C5_NameLoginUnique == [] C5_Unique /\ [][C5_Step]_vars

\* C5 witness: a second account with the name and login of an existing one
\* has been refused
C5_Witness ==
    /\ response.req.op = "create_user"
    /\ response.status = 409
    /\ \E u \in users : /\ u.name = response.req.name
                        /\ u.login = response.req.login

\* C6: a login whose login and password are those of a stored user is answered
\* 200 with the token of a user that has them; any other login is answered 401
\* without a token.
C6_Step ==
    (Answered /\ response'.req.op = "login") =>
        LET match == {u \in users : /\ u.login = response'.req.login
                                    /\ u.password = response'.req.password}
        IN  IF match # {}
            THEN /\ response'.status = 200
                 /\ \E u \in match : response'.body = [token |-> UuidStr(u.token)]
            ELSE /\ response'.status = 401
                 /\ response'.body = <<>>

C6_LoginReturnsToken == [][C6_Step]_vars

\* C6 witness: a login has succeeded while two accounts exist
C6_Witness ==
    /\ response.req.op = "login"
    /\ response.status = 200
    /\ Cardinality(users) = 2

\* C7: the token stored for a new user is the identifier generated during the
\* request that created it, never the token of the request body, and the token
\* of a user never changes while the user exists.
C7_Step ==
    /\ \A u \in users' :
          (\A v \in users : v.id # u.id) =>
              /\ response'.req.op = "create_user"
              /\ uuidSeq' = uuidSeq + 1
              /\ u.token = uuidSeq'
              /\ \A v \in users : v.token # u.token
              /\ UuidStr(u.token) # response'.req.token
    /\ \A u \in users : \A v \in users' : v.id = u.id => v.token = u.token

C7_TokenIssuedByServer == [][C7_Step]_vars

\* C7 witness: an account was created by a request whose body carried the
\* token of an existing user
C7_Witness ==
    /\ response.req.op = "create_user"
    /\ response.status = 201
    /\ TokenStored(response.req.token)

\* C8 as stated: created_at of a post is the time the post was created, and of
\* two posts created by one run of the server the later one has the later
\* created_at.
C8_CreatedAtIsCreationTime ==
    /\ \A q \in posts : q.created_at = hist[q.id].at
    /\ \A q, r \in posts :
          (hist[q.id].run = hist[r.id].run /\ hist[q.id].at < hist[r.id].at)
              => q.created_at < r.created_at

\* C9: a listing sorted on created_at or title is in non-increasing order of
\* that field; with an author filter it holds only posts of that author, and
\* without a limit all of them.
C9_Step ==
    (Answered /\ response'.req.op = "get_posts" /\ response'.status = 200) =>
        LET r == response'.req
            b == response'.body
            field == sort_by(r)
            ids == {b[i].id : i \in 1..Len(b)}
        IN  /\ ids \subseteq {q.id : q \in posts}
            /\ Cardinality(ids) = Len(b)
            /\ \A i \in 1..Len(b) : b[i].title = PostById(b[i].id).title
            /\ field = "title" =>
                  \A i, j \in 1..Len(b) :
                      i < j => TitleRank(b[i].title) >= TitleRank(b[j].title)
            /\ field = "created_at" =>
                  \A i, j \in 1..Len(b) :
                      i < j => PostById(b[i].id).created_at
                                  >= PostById(b[j].id).created_at
            /\ r.author # {} =>
                  /\ \A i \in ids : {PostById(i).author} = r.author
                  /\ r.limit = {} =>
                        ids = {q.id : q \in {t \in posts : {t.author} = r.author}}

C9_ListingSortedAndScoped == [][C9_Step]_vars

\* C9 witness: a listing of one author's posts, sorted on the title, has
\* returned two posts with different titles
C9_Witness ==
    /\ response.req.op = "get_posts"
    /\ response.status = 200
    /\ response.req.desc = {"title"}
    /\ response.req.author # {}
    /\ Len(response.body) = 2
    /\ response.body[1].title # response.body[2].title

\* C10 as stated: a request during which a database access raised an error is
\* answered with 404, 409 or 500.
C10_StoreErrorsMapped ==
    response.raised # {} => response.status \in {404, 409, 500}

\* C11: a create-post request that passed the token check and whose author is
\* not the id of an existing user is answered 404, and neither of its steps
\* changes the stored posts.
C11_Step ==
    \A p \in Procs :
        /\ (pc[p] = "idle" /\ pc'[p] = "cp_commit") => posts' = posts
        /\ (/\ pc[p] = "cp_commit"
            /\ pc'[p] = "idle"
            /\ \A u \in users : u.id # response'.req.author)
              => (response'.status = 404 /\ posts' = posts)

C11_UnknownAuthorRefused == [][C11_Step]_vars

\* C11 witness: with a post stored, a create-post for an author that is no
\* user was answered 404
C11_Witness ==
    /\ response.req.op = "create_post"
    /\ response.status = 404
    /\ \A u \in users : u.id # response.req.author
    /\ posts # {}

\* C12: a delete-user request that finds no post of the user goes on to the
\* deletion of the user; if the user exists and no post refers to it, the
\* request is answered 200 and removes that user and nothing else; if its
\* lookup finds no user, it is answered 404 and changes neither users nor posts.
C12_Step ==
    /\ ~ (/\ Answered
          /\ response'.req.op = "delete_user"
          /\ \A q \in posts : q.author # response'.req.user_id)
    /\ \A p \in Procs :
        /\ (/\ pc[p] = "idle"
            /\ pc'[p] # "idle"
            /\ req'[p].op = "delete_user"
            /\ \A q \in posts : q.author # req'[p].user_id)
              => (pc'[p] = "du_user" /\ users' = users /\ posts' = posts)
        /\ (pc[p] = "du_user" /\ pc'[p] # "du_user") =>
              /\ users' = users
              /\ posts' = posts
              /\ IF \E u \in users : u.id = req[p].user_id
                 THEN pc'[p] = "du_user_commit"
                 ELSE /\ pc'[p] = "idle"
                      /\ response'.req.op = "delete_user"
                      /\ response'.status = 404
        /\ (/\ pc[p] = "du_user_commit"
            /\ pc'[p] = "idle"
            /\ \A q \in posts : q.author # req[p].user_id)
              => /\ response'.status = 200
                 /\ users' = {u \in users : u.id # req[p].user_id}
                 /\ posts' = posts

C12_DeleteUserWithoutPosts == [][C12_Step]_vars

\* C12 witness: a user was deleted by a request whose post deletion had found
\* no posts
C12_Witness ==
    /\ response.req.op = "delete_user"
    /\ response.status = 200
    /\ response.req.posts_result = 404
    /\ response.req.user_id <= userSeq

\* C13: an update or a delete of a post that passed the token check and whose
\* lookup is of an id that no stored post has is answered 404; neither the
\* token check nor the lookup changes a post or a user.
C13_Step ==
    \A p \in Procs :
        /\ (pc[p] = "idle" /\ pc'[p] \in {"up_select", "dp_select"})
              => (posts' = posts /\ users' = users)
        /\ (/\ pc[p] \in {"up_select", "dp_select"}
            /\ pc'[p] # pc[p]
            /\ \A q \in posts : q.id # req[p].post_id)
              => /\ pc'[p] = "idle"
                 /\ response'.req = req[p]
                 /\ response'.status = 404
                 /\ posts' = posts
                 /\ users' = users

C13_MissingPostNotFound == [][C13_Step]_vars

\* C13 witness: with a post stored, an update or a delete of another id, which
\* no post has, was answered 404
C13_Witness ==
    /\ response.req.op \in {"update_post", "delete_post"}
    /\ response.status = 404
    /\ posts # {}
    /\ \A q \in posts : q.id # response.req.post_id

\* C14 as stated: the step by which an update of post p is answered 200 and
\* changes the posts leaves p with the submitted title and text; it leaves p's
\* id, author and created_at, every other post and every user as they were;
\* an update whose body id differs from the path id is answered 400, goes no
\* further and changes nothing.
C14_Step ==
    /\ \A p \in Procs :
          /\ (pc[p] = "up_commit" /\ pc'[p] = "idle" /\ response'.status = 200) =>
                /\ users' = users
                /\ {q.id : q \in posts'} = {q.id : q \in posts}
                /\ \A q \in posts : \E t \in posts' :
                      /\ t.id = q.id
                      /\ t.author = q.author
                      /\ t.created_at = q.created_at
                      /\ q.id # req[p].post_id => t = q
                /\ posts' # posts =>
                      \A t \in posts' :
                          t.id = req[p].post_id =>
                              /\ t.title = response'.req.title
                              /\ t.text = response'.req.text
          /\ req'[p].op = "update_post" => req'[p].id = req'[p].post_id
    /\ (/\ Answered
        /\ response'.req.op = "update_post"
        /\ "id" \in DOMAIN response'.req
        /\ response'.req.id # response'.req.post_id)
          => (response'.status = 400 /\ posts' = posts /\ users' = users)

C14_UpdateWritesSubmitted == [][C14_Step]_vars

\* C15: the step by which a delete of post id is answered 200 removes post id
\* and nothing else; an id that has left the posts never comes back; and a
\* fetch, or an update or delete that passed the token check and the id check,
\* whose lookup is of an id that no stored post has is answered 404.
C15_Step ==
    /\ \A p \in Procs :
          /\ (pc[p] = "dp_commit" /\ pc'[p] = "idle" /\ response'.status = 200) =>
                /\ posts' = {q \in posts : q.id # req[p].post_id}
                /\ users' = users
          /\ (/\ pc[p] \in {"up_select", "dp_select"}
              /\ pc'[p] # pc[p]
              /\ \A q \in posts : q.id # req[p].post_id)
                => (pc'[p] = "idle" /\ response'.req = req[p]
                                    /\ response'.status = 404)
          /\ (pc[p] = "idle" /\ pc'[p] = "gp_user") =>
                \E q \in posts : q.id = req'[p].post_id
    /\ (/\ Answered
        /\ response'.req.op = "get_post"
        /\ \A q \in posts : q.id # response'.req.post_id)
          => response'.status = 404
    /\ postSeq' >= postSeq
    /\ \A t \in posts' : (\E q \in posts : q.id = t.id) \/ t.id > postSeq

C15_Ids == \A q \in posts : q.id <= postSeq

C15_DeletedPostStaysDeleted == [] C15_Ids /\ [][C15_Step]_vars

\* C15 witness: a delete of a post was answered 200, the post is gone and
\* another post is still stored
C15_Witness ==
    /\ response.req.op = "delete_post"
    /\ response.status = 200
    /\ hist[response.req.post_id].at > 0
    /\ \A q \in posts : q.id # response.req.post_id
    /\ posts # {}

\* C16: a listing with limit n holds at most n posts; a listing with author a
\* and limit n holds min(n, number of a's posts) posts, all of them a's, in
\* descending order of the sort field, and no post of a that it leaves out
\* sorts before one that it holds.
C16_Key(q, field) ==
    IF field = "title" THEN TitleRank(q.title)
    ELSE IF field = "created_at" THEN q.created_at
    ELSE 0

C16_Step ==
    (/\ Answered
     /\ response'.req.op = "get_posts"
     /\ response'.status = 200
     /\ response'.req.limit # {}) =>
        LET r == response'.req
            b == response'.body
            n == CHOOSE k \in r.limit : TRUE
            field == sort_by(r)
            ids == {b[i].id : i \in 1..Len(b)}
            mine == {q \in posts : {q.author} = r.author}
        IN  /\ Len(b) <= n
            /\ r.author # {} =>
                  /\ ids \subseteq {q.id : q \in mine}
                  /\ Cardinality(ids) = Len(b)
                  /\ Len(b) = Min(n, Cardinality(mine))
                  /\ \A i, j \in 1..Len(b) :
                        i < j => C16_Key(PostById(b[i].id), field)
                                    >= C16_Key(PostById(b[j].id), field)
                  /\ \A q \in mine : \A i \in ids :
                        q.id \notin ids =>
                            C16_Key(PostById(i), field) >= C16_Key(q, field)

C16_FilterSortTruncate == [][C16_Step]_vars

\* C16 witness: a listing by title with author a and limit 1 returned a post of
\* a although a post of another author sorts before it
C16_Witness ==
    /\ response.req.op = "get_posts"
    /\ response.status = 200
    /\ response.req.desc = {"title"}
    /\ response.req.limit = {1}
    /\ response.req.author # {}
    /\ Len(response.body) = 1
    /\ \E q \in posts :
          /\ {q.author} # response.req.author
          /\ TitleRank(q.title) > TitleRank(response.body[1].title)

\* C17 as stated: a listing request whose desc value is neither created_at nor
\* title, the empty string included, is answered 400 without a list; a
\* request without a desc value is answered with the posts in descending
\* order of created_at.
C17_SortFieldValidated ==
    response.req.op = "get_posts" =>
        /\ (response.req.desc # {} /\ sort_by(response.req) \notin {"created_at", "title"})
              => (response.status = 400 /\ response.body = <<>>)
        /\ response.req.desc = {} =>
              /\ response.status = 200
              /\ \A i, j \in 1..Len(response.body) :
                    i < j => PostById(response.body[i].id).created_at
                                >= PostById(response.body[j].id).created_at

\* C18: a post mutation passes the token check if and only if its token is the
\* stored token of a user that exists at the check; a user leaves the users
\* only by a delete-user request answered 200, and a token that was issued and
\* is no longer stored is never stored again.
C18_Step ==
    /\ \A p \in Procs :
          (pc[p] = "idle" /\ pc'[p] # "idle" /\ req'[p].op \in MutationOps)
              => TokenStored(req'[p].token)
    /\ (Answered /\ response'.req.op \in MutationOps)
          => (TokenStored(response'.req.token) <=> response'.status # 403)
    /\ \A u \in users :
          u \in users' \/ (/\ response'.req.op = "delete_user"
                           /\ response'.status = 200
                           /\ response'.req.user_id = u.id)
    /\ \A k \in 1..uuidSeq :
          (\A u \in users : u.token # k) => (\A u \in users' : u.token # k)

C18_TokenValidWhileUserExists == [][C18_Step]_vars

\* C18 witness: after the author of a post was deleted, a mutation presenting
\* a well-formed token that no user holds was answered 403
C18_Witness ==
    /\ response.req.op \in MutationOps
    /\ response.status = 403
    /\ IsUuidStr(response.req.token)
    /\ \A u \in users : u.token # UuidOf(response.req.token)
    /\ \E i \in PostIds :
          /\ hist[i].at > 0
          /\ \A u \in users : u.id # hist[i].author

\* C19: what a post mutation with the stored token of some user answers and
\* does is a function of the request without its token and of the posts and
\* user ids stored: where it goes after the token check, what each of its
\* steps answers and what it leaves in the store are given by C19_Label and
\* C19_Outcome, in which no token occurs.  Two runs that differ only in which
\* valid token is presented therefore agree.
C19_Blind(r) == [k \in DOMAIN r \ {"token"} |-> r[k]]

C19_Label(r) ==
    CASE r.op = "create_post" -> "cp_commit"
      [] r.op = "delete_post" -> "dp_select"
      [] r.op = "update_post" -> "up_select"

\* status and posts after the step of a request r, token removed, that is at
\* label at with the rows loaded
C19_Outcome(at, r, loaded) ==
    LET found == {q \in posts : q.id = r.post_id}
        row == CHOOSE l \in loaded : TRUE
    IN  CASE at = "cp_commit" ->
                IF \E u \in users : u.id = r.author
                THEN [status |-> 201,
                      posts |-> posts \cup {[id |-> postSeq + 1, title |-> r.title,
                                             author |-> r.author, text |-> r.text,
                                             created_at |-> importTime]}]
                ELSE [status |-> 404, posts |-> posts]
          [] at \in {"up_select", "dp_select"} ->
                [status |-> IF found = {} THEN 404 ELSE 0, posts |-> posts]
          [] at = "dp_commit" ->
                [status |-> 200, posts |-> posts \ {q \in posts : q.id = row.id}]
          [] at = "up_commit" ->
                IF r.title = row.title /\ r.text = row.text
                THEN [status |-> 200, posts |-> posts]
                ELSE IF \A q \in posts : q.id # row.id
                THEN [status |-> 500, posts |-> posts]
                ELSE [status |-> 200,
                      posts |-> {IF q.id # row.id THEN q
                                 ELSE [q EXCEPT
                                         !.title = IF r.title # row.title
                                                   THEN r.title ELSE @,
                                         !.text = IF r.text # row.text
                                                  THEN r.text ELSE @]
                                 : q \in posts}]

C19_Step ==
    /\ (Answered /\ response'.req.op \in MutationOps
                 /\ TokenStored(response'.req.token))
          => /\ response'.req.op = "update_post"
             /\ response'.req.id # response'.req.post_id
             /\ response'.status = 400
             /\ posts' = posts
             /\ users' = users
    /\ \A p \in Procs :
          /\ (pc[p] = "idle" /\ pc'[p] # "idle" /\ req'[p].op \in MutationOps)
                => /\ pc'[p] = C19_Label(C19_Blind(req'[p]))
                   /\ posts' = posts
                   /\ users' = users
          /\ (/\ pc[p] \in {"cp_commit", "up_select", "up_commit",
                            "dp_select", "dp_commit"}
              /\ pc'[p] # pc[p]) =>
                LET r == C19_Blind(IF pc'[p] = "idle" THEN response'.req ELSE req'[p])
                    out == C19_Outcome(pc[p], r, loc[p])
                IN  /\ \A k \in DOMAIN C19_Blind(req[p]) : r[k] = req[p][k]
                    /\ posts' = out.posts
                    /\ users' = users
                    /\ IF out.status = 0
                       THEN /\ pc'[p] = (IF pc[p] = "up_select"
                                         THEN "up_commit" ELSE "dp_commit")
                            /\ loc'[p] = {q \in posts : q.id = r.post_id}
                       ELSE /\ pc'[p] = "idle"
                            /\ response'.status = out.status
                            /\ response'.body = <<>>

C19_TokenBlindAuthorization == [][C19_Step]_vars

\* C19 witness: an update or delete of a post was answered 200 for a request
\* that presented the token of a user who is not the author of the post
C19_Witness ==
    /\ response.req.op \in {"update_post", "delete_post"}
    /\ response.status = 200
    /\ hist[response.req.post_id].at > 0
    /\ \E u \in users :
          /\ UuidStr(u.token) = response.req.token
          /\ u.id # hist[response.req.post_id].author

\* C20 as stated: a delete-user request that is answered with an error has
\* removed neither the user nor a post of the user: its deletion of the
\* user's posts was not committed.
C20_DeleteUserAllOrNothing ==
    (response.req.op = "delete_user" /\ response.status # 200) =>
        ~ (/\ "posts_result" \in DOMAIN response.req
           /\ response.req.posts_result = 200
           /\ \E i \in PostIds :
                 /\ hist[i].at > 0
                 /\ hist[i].author = response.req.user_id
                 /\ \A q \in posts : q.id # i)

\* C21: a read-only request (fetching a post, listing posts, logging in)
\* carries no token and is never refused for one, and no step of it, whatever
\* its outcome, changes the users or the posts or any field of them (tokens
\* included).
C21_ReadOps == {"get_post", "get_posts", "login"}

C21_Step ==
    /\ (Answered /\ response'.req.op \in C21_ReadOps) =>
          /\ "token" \notin DOMAIN response'.req
          /\ response'.status # 403
          /\ users' = users
          /\ posts' = posts
    /\ \A p \in Procs :
          (pc'[p] # pc[p] /\ "gp_user" \in {pc[p], pc'[p]}) =>
              /\ "token" \notin DOMAIN req[p] \cup DOMAIN req'[p]
              /\ pc'[p] = "idle" => /\ response'.req.op = "get_post"
                                    /\ response'.status # 403
              /\ users' = users
              /\ posts' = posts

C21_ReadOnlyRequestsChangeNothing == [][C21_Step]_vars

\* C21 witness: a login was answered 200 while the store holds users and
\* posts, with no request in flight that could have carried a token for it
C21_Witness ==
    /\ response.req.op = "login"
    /\ response.status = 200
    /\ users # {}
    /\ posts # {}
    /\ \A p \in Procs : pc[p] = "idle"

====
